---- MODULE Spec2Model ----
(***************************************************************************)
(* Two MPI coordinator/worker programs:                                    *)
(*   "add"  - matrix_add_v2.c       : scatter A and B (48 ints), add the   *)
(*            local portions, workers send host name and sums to rank 0.   *)
(*   "mult" - scatter_matrix_mult.c : scatter the rows of a 16x16 matrix,  *)
(*            broadcast X, every rank computes its rows of A*X, workers    *)
(*            send their results to rank 0.                                *)
(* One process per rank; a process is a program counter plus its locals.   *)
(* The float arithmetic of "mult" is modelled with integers: every value   *)
(* is an integer below 2^24, which a float represents exactly.             *)
(***************************************************************************)
EXTENDS Integers, Sequences, FiniteSets

(* ---- program constants ------------------------------------------------ *)
MAXPROC == 8
LENGTH == 48
N == 16
nametag == 42
datatag == 43
resulttag == 45
root == 0
\* rows that localA and localResult of the matrix program can hold (N/4)
LocalRows == N \div 4

(* ---- bounds of the model ---------------------------------------------- *)
\* group sizes 1..MaxNP are explored for both programs
MaxNP == 5
\* group sizes that the array-sum program rejects are explored up to
\* MAXPROC + MaxOver (a rejected run is one step per process)
MaxOver == 4
\* the processes are placed round-robin on 1..MaxHosts hosts
MaxHosts == 2

\* content of memory that has not been written yet
Undef == -1

VARIABLES
  prog,        \* which program runs: "add" or "mult"
  np,          \* group size (MPI_Comm_size)
  nhosts,      \* number of hosts the ranks are placed on
  sendMode,    \* "buffered": MPI_Send returns at once; "sync": it waits for the receive
  pc,          \* pc[r]: position of rank r
  myname,      \* myname[r]: host label of rank r (gethostname)
  A, B,        \* the coordinator's arrays (add)
  localA,      \* localA[r]: local portion of A (add) / local rows of matA (mult)
  localB,      \* localB[r]: local portion of B (add)
  localSum,    \* localSum[r]: local sums; on rank 0 also the receive buffer (add)
  hostname,    \* hostname[i]: host name received from rank i, on rank 0 (add)
  recv_i,      \* loop counter i of the coordinator's receive loop
  matA,        \* the coordinator's matrix (mult)
  matX,        \* matX[r]: rank r's copy of the vector X (mult)
  localResult, \* localResult[r]: local result vector (mult)
  result,      \* final result vector on rank 0 (mult)
  nwrites,     \* nwrites[k]: how often result[k] has been written (mult)
  coll,        \* coll[r]: collective payloads the root has posted for rank r
  chan,        \* chan[r]: point-to-point messages from rank r to rank 0, in send order
  calls,       \* calls[r]: the communication calls rank r has made, in order
  recvd,       \* the messages rank 0 has received, in order
  out,         \* out[r]: what rank r has printed
  exitcode,    \* exitcode[r]: exit status of rank r, Undef while it runs
  cfgFailed    \* cfgFailed[r]: rank r left through the configuration check

vars == <<prog, np, nhosts, sendMode, pc, myname, A, B, localA, localB, localSum,
          hostname, recv_i, matA, matX, localResult, result, nwrites, coll, chan, calls,
          recvd, out, exitcode, cfgFailed>>

Ranks == 0 .. (np - 1)
Workers == 1 .. (np - 1)

(* ---- the configuration check of the array-sum program ------------------ *)
\* the coordinator's check with the test against MAXPROC left out
RootConfigBad_NoMax(n) == LENGTH % n # 0

RootConfigBad(n) == n > MAXPROC \/ LENGTH % n # 0

\* the worker's check with the divisibility test left out
WorkerConfigBad_NoDivisor(n) == n > MAXPROC

WorkerConfigBad(n) == n > MAXPROC \/ LENGTH % n # 0

\* group sizes the model explores
AddSizes == (1 .. MaxNP) \cup {n \in 1 .. (MAXPROC + MaxOver) : n > MAXPROC \/ LENGTH % n # 0}

MultSizes == 1 .. MaxNP

\* gethostname: rank r runs on host r % nhosts
HostOf(r) == r % nhosts

(* ---- the transport ---------------------------------------------------- *)
\* MPI_Scatter: rank r gets elements [r*cnt, (r+1)*cnt) of the root's buffer
ScatterSlice(buf, cnt, r) == [k \in 0 .. (cnt - 1) |-> buf[r * cnt + k]]

\* a receive that leaves the last element of the buffer unwritten
Store_Short(buf, data, cnt) == [k \in DOMAIN buf |-> IF k < cnt - 1 THEN data[k] ELSE buf[k]]

\* writing cnt received elements into the front of a buffer
Store(buf, data, cnt) == [k \in DOMAIN buf |-> IF k < cnt THEN data[k] ELSE buf[k]]

\* a buffer count that is one element short
Prefix_Short(buf, cnt) == [k \in 0 .. (cnt - 2) |-> buf[k]]

\* the first cnt elements of a buffer
Prefix(buf, cnt) == [k \in 0 .. (cnt - 1) |-> buf[k]]

\* root side of a collective: post one payload per non-root rank
PostAll(payload) == [r \in Ranks |-> IF r = root THEN coll[r] ELSE Append(coll[r], payload[r])]

\* a receive that takes a message of any rank (MPI_ANY_SOURCE)
RecvSources_Any(src) == Workers

\* sources a receive posted for rank src may match (MPI_Recv names its source)
RecvSources(src) == {src}

\* position of the first message of chan[s] with the given tag, 0 if none
FirstMatch(s, tag) ==
  IF \E k \in 1 .. Len(chan[s]) : chan[s][k].tag = tag
  THEN CHOOSE k \in 1 .. Len(chan[s]) :
         /\ chan[s][k].tag = tag
         /\ \A j \in 1 .. (k - 1) : chan[s][j].tag # tag
  ELSE 0

\* a receive that leaves the message it has taken in the channel
RemoveAt_Keep(q, k) == q

\* the channel without its k-th message
RemoveAt(q, k) == [j \in 1 .. (Len(q) - 1) |-> IF j < k THEN q[j] ELSE q[j + 1]]

\* the receive rank 0 is blocked in, if any: <<source, tag>>
RootPosted ==
  IF prog = "add" /\ pc[root] = "recvName" THEN {<<recv_i, nametag>>}
  ELSE IF prog = "add" /\ pc[root] = "recvData" THEN {<<recv_i, datatag>>}
  ELSE IF prog = "mult" /\ pc[root] = "recv" THEN {<<recv_i, resulttag>>}
  ELSE {}

\* MPI_Send may return: at once when buffered, once the receive is posted when synchronous
SendMayComplete(r, tag) == sendMode = "buffered" \/ <<r, tag>> \in RootPosted

Line(kind, rank, host, data) == [kind |-> kind, rank |-> rank, host |-> host, data |-> data]

(* ---- initial state ---------------------------------------------------- *)
Init ==
  /\ prog \in {"add", "mult"}
  /\ np \in IF prog = "add" THEN AddSizes ELSE MultSizes
  /\ nhosts \in 1 .. MaxHosts
  /\ sendMode \in {"buffered", "sync"}
  /\ pc = [r \in Ranks |-> "start"]
  /\ myname = [r \in Ranks |-> Undef]
  /\ A = [k \in 0 .. (LENGTH - 1) |-> Undef]
  /\ B = [k \in 0 .. (LENGTH - 1) |-> Undef]
  /\ localA = [r \in Ranks |-> <<>>]
  /\ localB = [r \in Ranks |-> <<>>]
  /\ localSum = [r \in Ranks |-> <<>>]
  /\ hostname = [r \in Ranks |-> Undef]
  /\ recv_i = 0
  /\ matA = <<>>
  /\ matX = [r \in Ranks |-> <<>>]
  /\ localResult = [r \in Ranks |-> <<>>]
  /\ result = <<>>
  /\ nwrites = <<>>
  /\ coll = [r \in Ranks |-> <<>>]
  /\ chan = [r \in Ranks |-> <<>>]
  /\ calls = [r \in Ranks |-> <<>>]
  /\ recvd = <<>>
  /\ out = [r \in Ranks |-> <<>>]
  /\ exitcode = [r \in Ranks |-> Undef]
  /\ cfgFailed = [r \in Ranks |-> FALSE]

addLocals == <<A, B, localA, localB, localSum, hostname>>
multLocals == <<matA, matX, localResult, result>>
runConsts == <<prog, np, nhosts, sendMode>>

(* ======================= the array-sum program ========================= *)
\* rank 0, lines 37-64: start up, fill A and B, check the group size
AddRootConfigure ==
  /\ prog = "add" /\ pc[root] = "start"
  /\ myname' = [myname EXCEPT ![root] = HostOf(root)]
  /\ A' = [k \in 0 .. (LENGTH - 1) |-> k]
  /\ B' = [k \in 0 .. (LENGTH - 1) |-> LENGTH + k]
  /\ localA' = [localA EXCEPT ![root] = [k \in 0 .. (LENGTH - 1) |-> Undef]]
  /\ localB' = [localB EXCEPT ![root] = [k \in 0 .. (LENGTH - 1) |-> Undef]]
  /\ localSum' = [localSum EXCEPT ![root] = [k \in 0 .. (LENGTH - 1) |-> Undef]]
  /\ IF RootConfigBad(np)
     THEN /\ out' = [out EXCEPT ![root] = Append(@, Line("usage", root, HostOf(root), <<>>))]
          /\ pc' = [pc EXCEPT ![root] = "done"]
          /\ exitcode' = [exitcode EXCEPT ![root] = 0]
          /\ cfgFailed' = [cfgFailed EXCEPT ![root] = TRUE]
     ELSE /\ out' = [out EXCEPT ![root] = Append(@, Line("distributing", root, HostOf(root), <<>>))]
          /\ pc' = [pc EXCEPT ![root] = "scatterA"]
          /\ UNCHANGED <<exitcode, cfgFailed>>
  /\ UNCHANGED <<runConsts, hostname, recv_i, multLocals, nwrites, coll, chan, calls, recvd>>

\* a worker that prints the usage line as rank 0 does
AddWorkerConfigure_Usage(r) ==
  /\ prog = "add" /\ r # root /\ pc[r] = "start"
  /\ myname' = [myname EXCEPT ![r] = HostOf(r)]
  /\ localA' = [localA EXCEPT ![r] = [k \in 0 .. (LENGTH - 1) |-> Undef]]
  /\ localB' = [localB EXCEPT ![r] = [k \in 0 .. (LENGTH - 1) |-> Undef]]
  /\ localSum' = [localSum EXCEPT ![r] = [k \in 0 .. (LENGTH - 1) |-> Undef]]
  /\ IF WorkerConfigBad(np)
     THEN /\ pc' = [pc EXCEPT ![r] = "done"]
          /\ exitcode' = [exitcode EXCEPT ![r] = 0]
          /\ cfgFailed' = [cfgFailed EXCEPT ![r] = TRUE]
          /\ out' = [out EXCEPT ![r] = Append(@, Line("usage", r, HostOf(r), <<>>))]
     ELSE /\ out' = [out EXCEPT ![r] = Append(@, Line("receiving", r, HostOf(r), <<>>))]
          /\ pc' = [pc EXCEPT ![r] = "scatterA"]
          /\ UNCHANGED <<exitcode, cfgFailed>>
  /\ UNCHANGED <<runConsts, A, B, hostname, recv_i, multLocals, nwrites, coll, chan, calls, recvd>>

\* rank r > 0, lines 37-41 and 107-113
AddWorkerConfigure(r) ==
  /\ prog = "add" /\ r # root /\ pc[r] = "start"
  /\ myname' = [myname EXCEPT ![r] = HostOf(r)]
  /\ localA' = [localA EXCEPT ![r] = [k \in 0 .. (LENGTH - 1) |-> Undef]]
  /\ localB' = [localB EXCEPT ![r] = [k \in 0 .. (LENGTH - 1) |-> Undef]]
  /\ localSum' = [localSum EXCEPT ![r] = [k \in 0 .. (LENGTH - 1) |-> Undef]]
  /\ IF WorkerConfigBad(np)
     THEN /\ pc' = [pc EXCEPT ![r] = "done"]
          /\ exitcode' = [exitcode EXCEPT ![r] = 0]
          /\ cfgFailed' = [cfgFailed EXCEPT ![r] = TRUE]
          /\ UNCHANGED out
     ELSE /\ out' = [out EXCEPT ![r] = Append(@, Line("receiving", r, HostOf(r), <<>>))]
          /\ pc' = [pc EXCEPT ![r] = "scatterA"]
          /\ UNCHANGED <<exitcode, cfgFailed>>
  /\ UNCHANGED <<runConsts, A, B, hostname, recv_i, multLocals, nwrites, coll, chan, calls, recvd>>

\* rank 0, line 67
AddRootScatterA ==
  /\ prog = "add" /\ pc[root] = "scatterA"
  /\ coll' = PostAll([r \in Ranks |-> ScatterSlice(A, LENGTH \div np, r)])
  /\ localA' = [localA EXCEPT ![root] = Store(@, ScatterSlice(A, LENGTH \div np, root), LENGTH \div np)]
  /\ calls' = [calls EXCEPT ![root] = Append(@, "scatter")]
  /\ pc' = [pc EXCEPT ![root] = "scatterB"]
  /\ UNCHANGED <<runConsts, myname, A, B, localB, localSum, hostname, recv_i, multLocals, nwrites,
                 chan, recvd, out, exitcode, cfgFailed>>

\* rank 0, line 68
AddRootScatterB ==
  /\ prog = "add" /\ pc[root] = "scatterB"
  /\ coll' = PostAll([r \in Ranks |-> ScatterSlice(B, LENGTH \div np, r)])
  /\ localB' = [localB EXCEPT ![root] = Store(@, ScatterSlice(B, LENGTH \div np, root), LENGTH \div np)]
  /\ calls' = [calls EXCEPT ![root] = Append(@, "scatter")]
  /\ pc' = [pc EXCEPT ![root] = "compute"]
  /\ UNCHANGED <<runConsts, myname, A, B, localA, localSum, hostname, recv_i, multLocals, nwrites,
                 chan, recvd, out, exitcode, cfgFailed>>

\* rank r > 0, line 116: blocks until the root's slice has arrived
AddWorkerScatterA(r) ==
  /\ prog = "add" /\ r # root /\ pc[r] = "scatterA"
  /\ coll[r] # <<>>
  /\ localA' = [localA EXCEPT ![r] = Store(@, Head(coll[r]), LENGTH \div np)]
  /\ coll' = [coll EXCEPT ![r] = Tail(@)]
  /\ calls' = [calls EXCEPT ![r] = Append(@, "scatter")]
  /\ pc' = [pc EXCEPT ![r] = "scatterB"]
  /\ UNCHANGED <<runConsts, myname, A, B, localB, localSum, hostname, recv_i, multLocals, nwrites,
                 chan, recvd, out, exitcode, cfgFailed>>

\* a worker that leaves out its second scatter
AddWorkerScatterB_Skipped(r) ==
  /\ prog = "add" /\ r # root /\ pc[r] = "scatterB"
  /\ pc' = [pc EXCEPT ![r] = "compute"]
  /\ UNCHANGED <<runConsts, myname, addLocals, recv_i, multLocals, nwrites, coll, chan, calls,
                 recvd, out, exitcode, cfgFailed>>

\* rank r > 0, line 117
AddWorkerScatterB(r) ==
  /\ prog = "add" /\ r # root /\ pc[r] = "scatterB"
  /\ coll[r] # <<>>
  /\ localB' = [localB EXCEPT ![r] = Store(@, Head(coll[r]), LENGTH \div np)]
  /\ coll' = [coll EXCEPT ![r] = Tail(@)]
  /\ calls' = [calls EXCEPT ![r] = Append(@, "scatter")]
  /\ pc' = [pc EXCEPT ![r] = "compute"]
  /\ UNCHANGED <<runConsts, myname, A, B, localA, localSum, hostname, recv_i, multLocals, nwrites,
                 chan, recvd, out, exitcode, cfgFailed>>

\* a sum loop that adds the A portion to itself
AddSums_AA(la, lb, ls, cnt) == [k \in DOMAIN ls |-> IF k < cnt THEN la[k] + la[k] ELSE ls[k]]

\* lines 71-73 and 120-122: the elementwise sum of the first cnt elements
AddSums(la, lb, ls, cnt) == [k \in DOMAIN ls |-> IF k < cnt THEN la[k] + lb[k] ELSE ls[k]]

\* rank 0, lines 70-89: add the local portions, print them
AddRootCompute ==
  /\ prog = "add" /\ pc[root] = "compute"
  /\ localSum' = [localSum EXCEPT ![root] = AddSums(localA[root], localB[root], @, LENGTH \div np)]
  /\ out' = [out EXCEPT ![root] =
               Append(@, Line("local", root, myname[root], Prefix(localSum'[root], LENGTH \div np)))]
  /\ recv_i' = 1
  /\ pc' = [pc EXCEPT ![root] = IF 1 < np THEN "recvName" ELSE "ready"]
  /\ UNCHANGED <<runConsts, myname, A, B, localA, localB, hostname, multLocals, nwrites,
                 coll, chan, calls, recvd, exitcode, cfgFailed>>

\* rank r > 0, lines 119-138
AddWorkerCompute(r) ==
  /\ prog = "add" /\ r # root /\ pc[r] = "compute"
  /\ localSum' = [localSum EXCEPT ![r] = AddSums(localA[r], localB[r], @, LENGTH \div np)]
  /\ out' = [out EXCEPT ![r] =
               Append(@, Line("local", r, myname[r], Prefix(localSum'[r], LENGTH \div np)))]
  /\ pc' = [pc EXCEPT ![r] = "sendName"]
  /\ UNCHANGED <<runConsts, myname, A, B, localA, localB, hostname, recv_i, multLocals, nwrites,
                 coll, chan, calls, recvd, exitcode, cfgFailed>>

\* rank r > 0, line 141
AddSendName(r) ==
  /\ prog = "add" /\ r # root /\ pc[r] = "sendName"
  /\ SendMayComplete(r, nametag)
  /\ chan' = [chan EXCEPT ![r] = Append(@, [src |-> r, tag |-> nametag, kind |-> "name", data |-> myname[r]])]
  /\ calls' = [calls EXCEPT ![r] = Append(@, "send")]
  /\ pc' = [pc EXCEPT ![r] = "sendData"]
  /\ UNCHANGED <<runConsts, myname, addLocals, recv_i, multLocals, nwrites, coll, recvd, out,
                 exitcode, cfgFailed>>

\* rank r > 0, lines 144-146
AddSendData(r) ==
  /\ prog = "add" /\ r # root /\ pc[r] = "sendData"
  /\ SendMayComplete(r, datatag)
  /\ chan' = [chan EXCEPT ![r] = Append(@, [src |-> r, tag |-> datatag, kind |-> "data",
                                            data |-> Prefix(localSum[r], LENGTH \div np)])]
  /\ calls' = [calls EXCEPT ![r] = Append(@, "send")]
  /\ out' = [out EXCEPT ![r] = Append(@, Line("sent", r, myname[r], <<>>))]
  /\ pc' = [pc EXCEPT ![r] = "exit"]
  /\ UNCHANGED <<runConsts, myname, addLocals, recv_i, multLocals, nwrites, coll, recvd,
                 exitcode, cfgFailed>>

\* rank 0, line 93: receive the host name of rank recv_i
AddRecvName ==
  /\ prog = "add" /\ pc[root] = "recvName"
  /\ \E s \in RecvSources(recv_i) \cap Workers :
       /\ FirstMatch(s, nametag) # 0
       /\ LET k == FirstMatch(s, nametag)
              m == chan[s][k]
          IN /\ hostname' = [hostname EXCEPT ![recv_i] = m.data]
             /\ chan' = [chan EXCEPT ![s] = RemoveAt(@, k)]
             /\ recvd' = Append(recvd, [from |-> m.src, tag |-> m.tag, kind |-> m.kind, slot |-> recv_i])
  /\ calls' = [calls EXCEPT ![root] = Append(@, "recv")]
  /\ pc' = [pc EXCEPT ![root] = "recvData"]
  /\ UNCHANGED <<runConsts, myname, A, B, localA, localB, localSum, recv_i, multLocals, nwrites,
                 coll, out, exitcode, cfgFailed>>

\* rank 0, lines 94-101: receive the sums of rank recv_i into localSum, print them
AddRecvData ==
  /\ prog = "add" /\ pc[root] = "recvData"
  /\ \E s \in RecvSources(recv_i) \cap Workers :
       /\ FirstMatch(s, datatag) # 0
       /\ LET k == FirstMatch(s, datatag)
              m == chan[s][k]
          IN /\ localSum' = [localSum EXCEPT ![root] = Store(@, m.data, LENGTH \div np)]
             /\ chan' = [chan EXCEPT ![s] = RemoveAt(@, k)]
             /\ recvd' = Append(recvd, [from |-> m.src, tag |-> m.tag, kind |-> m.kind, slot |-> recv_i])
  /\ calls' = [calls EXCEPT ![root] = Append(@, "recv")]
  /\ out' = [out EXCEPT ![root] =
               Append(@, Line("sums", recv_i, hostname[recv_i], Prefix(localSum'[root], LENGTH \div np)))]
  /\ recv_i' = recv_i + 1
  /\ pc' = [pc EXCEPT ![root] = IF recv_i + 1 < np THEN "recvName" ELSE "ready"]
  /\ UNCHANGED <<runConsts, myname, A, B, localA, localB, hostname, multLocals, nwrites,
                 coll, exitcode, cfgFailed>>

\* rank 0, lines 103 and 149-150
AddRootFinish ==
  /\ prog = "add" /\ pc[root] = "ready"
  /\ out' = [out EXCEPT ![root] = Append(@, Line("Ready", root, myname[root], <<>>))]
  /\ pc' = [pc EXCEPT ![root] = "done"]
  /\ exitcode' = [exitcode EXCEPT ![root] = 0]
  /\ UNCHANGED <<runConsts, myname, addLocals, recv_i, multLocals, nwrites, coll, chan, calls,
                 recvd, cfgFailed>>

\* rank r > 0, lines 149-150
AddWorkerExit(r) ==
  /\ prog = "add" /\ r # root /\ pc[r] = "exit"
  /\ pc' = [pc EXCEPT ![r] = "done"]
  /\ exitcode' = [exitcode EXCEPT ![r] = 0]
  /\ UNCHANGED <<runConsts, myname, addLocals, recv_i, multLocals, nwrites, coll, chan, calls,
                 recvd, out, cfgFailed>>

(* ======================= the matrix-vector program ===================== *)
\* line 40
rows_per_proc == N \div np

\* sum of f[0] .. f[n-1]
RECURSIVE SumTo(_, _)
SumTo(f, n) == IF n = 0 THEN 0 ELSE SumTo(f, n - 1) + f[n - 1]

\* lines 78-81 and 113-116: the dot product of one row with X
Dot(row, x) == SumTo([j \in 0 .. (N - 1) |-> row[j] * x[j]], N)

\* lines 77-82 and 112-117: one dot product per local row
LocalProducts(la, x, cnt) == [k \in 0 .. (cnt - 1) |-> Dot(la[k], x)]

\* a row of memory that has been overwritten by something else
ClobberedRow == [j \in 0 .. (N - 1) |-> Undef]

\* localA holds LocalRows rows (line 26). Rows received beyond that are written
\* past the end of the array: they either stay as written or are clobbered
\* before they are read.
LandedRows(rows, cnt) ==
  IF cnt <= LocalRows THEN {rows}
  ELSE {rows, [k \in 0 .. (cnt - 1) |-> IF k < LocalRows THEN rows[k] ELSE ClobberedRow]}

\* localResult holds LocalRows entries (line 27); the same for entries beyond it
LandedResults(res, cnt) ==
  IF cnt <= LocalRows THEN {res}
  ELSE {res, [k \in 0 .. (cnt - 1) |-> IF k < LocalRows THEN res[k] ELSE Undef]}

\* rank 0, lines 31-66: start up, fill matA and matX, print them
MultRootStart ==
  /\ prog = "mult" /\ pc[root] = "start"
  /\ myname' = [myname EXCEPT ![root] = HostOf(root)]
  /\ matA' = [i \in 0 .. (N - 1) |-> [j \in 0 .. (N - 1) |-> i * N + j]]
  /\ matX' = [matX EXCEPT ![root] = [i \in 0 .. (N - 1) |-> i + 1]]
  /\ result' = [k \in 0 .. (N - 1) |-> Undef]
  /\ nwrites' = [k \in 0 .. (N - 1) |-> 0]
  /\ out' = [out EXCEPT ![root] = Append(@, Line("inputs", root, HostOf(root), <<>>))]
  /\ pc' = [pc EXCEPT ![root] = "scatter"]
  /\ UNCHANGED <<runConsts, addLocals, recv_i, localResult, coll, chan, calls, recvd,
                 exitcode, cfgFailed>>

\* rank r > 0, lines 31-40
MultWorkerStart(r) ==
  /\ prog = "mult" /\ r # root /\ pc[r] = "start"
  /\ myname' = [myname EXCEPT ![r] = HostOf(r)]
  /\ pc' = [pc EXCEPT ![r] = "scatter"]
  /\ UNCHANGED <<runConsts, addLocals, recv_i, multLocals, nwrites, coll, chan, calls, recvd,
                 out, exitcode, cfgFailed>>

\* rank 0, lines 69-71
MultRootScatter ==
  /\ prog = "mult" /\ pc[root] = "scatter"
  /\ coll' = PostAll([r \in Ranks |-> ScatterSlice(matA, rows_per_proc, r)])
  /\ \E rows \in LandedRows(ScatterSlice(matA, rows_per_proc, root), rows_per_proc) :
       localA' = [localA EXCEPT ![root] = rows]
  /\ calls' = [calls EXCEPT ![root] = Append(@, "scatter")]
  /\ pc' = [pc EXCEPT ![root] = "bcast"]
  /\ UNCHANGED <<runConsts, myname, A, B, localB, localSum, hostname, recv_i, multLocals, nwrites,
                 chan, recvd, out, exitcode, cfgFailed>>

\* rank r > 0, lines 104-106
MultWorkerScatter(r) ==
  /\ prog = "mult" /\ r # root /\ pc[r] = "scatter"
  /\ coll[r] # <<>>
  /\ \E rows \in LandedRows(Head(coll[r]), rows_per_proc) :
       localA' = [localA EXCEPT ![r] = rows]
  /\ coll' = [coll EXCEPT ![r] = Tail(@)]
  /\ calls' = [calls EXCEPT ![r] = Append(@, "scatter")]
  /\ pc' = [pc EXCEPT ![r] = "bcast"]
  /\ UNCHANGED <<runConsts, myname, A, B, localB, localSum, hostname, recv_i, multLocals, nwrites,
                 chan, recvd, out, exitcode, cfgFailed>>

\* lines 26-27 with 69-71 and 104-106: a scatter that writes past the end of
\* localA may also end the process
MultOverflowCrash(r) ==
  /\ prog = "mult" /\ pc[r] = "scatter"
  /\ rows_per_proc > LocalRows
  /\ r = root \/ coll[r] # <<>>
  /\ pc' = [pc EXCEPT ![r] = "crashed"]
  /\ calls' = [calls EXCEPT ![r] = Append(@, "scatter")]
  /\ UNCHANGED <<runConsts, myname, addLocals, recv_i, multLocals, nwrites, coll, chan, recvd,
                 out, exitcode, cfgFailed>>

\* rank 0, line 74
MultRootBcast ==
  /\ prog = "mult" /\ pc[root] = "bcast"
  /\ coll' = PostAll([r \in Ranks |-> matX[root]])
  /\ calls' = [calls EXCEPT ![root] = Append(@, "bcast")]
  /\ pc' = [pc EXCEPT ![root] = "compute"]
  /\ UNCHANGED <<runConsts, myname, addLocals, recv_i, multLocals, nwrites, chan, recvd,
                 out, exitcode, cfgFailed>>

\* rank r > 0, line 109
MultWorkerBcast(r) ==
  /\ prog = "mult" /\ r # root /\ pc[r] = "bcast"
  /\ coll[r] # <<>>
  /\ matX' = [matX EXCEPT ![r] = Head(coll[r])]
  /\ coll' = [coll EXCEPT ![r] = Tail(@)]
  /\ calls' = [calls EXCEPT ![r] = Append(@, "bcast")]
  /\ pc' = [pc EXCEPT ![r] = "compute"]
  /\ UNCHANGED <<runConsts, myname, addLocals, recv_i, matA, localResult, result, nwrites,
                 chan, recvd, out, exitcode, cfgFailed>>

\* lines 85-87: copy the coordinator's own results to the front of result
CopyOwn(res, lr, cnt) == [k \in DOMAIN res |-> IF k < cnt THEN lr[k] ELSE res[k]]

\* lines 91-92: cnt received values go to result[i*cnt .. i*cnt + cnt - 1]
StoreAt(res, data, i, cnt) ==
  [k \in DOMAIN res |-> IF i * cnt <= k /\ k < i * cnt + cnt THEN data[k - i * cnt] ELSE res[k]]

\* the write counts after cnt entries from offset off have been written
CountWrites(nw, off, cnt) ==
  [k \in DOMAIN nw |-> IF off <= k /\ k < off + cnt THEN nw[k] + 1 ELSE nw[k]]

\* rank 0, lines 76-87: compute the own rows, copy them to result
MultRootCompute ==
  /\ prog = "mult" /\ pc[root] = "compute"
  /\ \E lr \in LandedResults(LocalProducts(localA[root], matX[root], rows_per_proc), rows_per_proc) :
       /\ localResult' = [localResult EXCEPT ![root] = lr]
       /\ result' = CopyOwn(result, lr, rows_per_proc)
  /\ nwrites' = CountWrites(nwrites, 0, rows_per_proc)
  /\ recv_i' = 1
  /\ pc' = [pc EXCEPT ![root] = IF 1 < np THEN "recv" ELSE "report"]
  /\ UNCHANGED <<runConsts, myname, addLocals, matA, matX, coll, chan, calls, recvd,
                 out, exitcode, cfgFailed>>

\* rank r > 0, lines 111-123: compute the own rows, print them
MultWorkerCompute(r) ==
  /\ prog = "mult" /\ r # root /\ pc[r] = "compute"
  /\ \E lr \in LandedResults(LocalProducts(localA[r], matX[r], rows_per_proc), rows_per_proc) :
       /\ localResult' = [localResult EXCEPT ![r] = lr]
       /\ out' = [out EXCEPT ![r] = Append(@, Line("computed", r, myname[r], lr))]
  /\ pc' = [pc EXCEPT ![r] = "send"]
  /\ UNCHANGED <<runConsts, myname, addLocals, recv_i, matA, matX, result, nwrites,
                 coll, chan, calls, recvd, exitcode, cfgFailed>>

\* rank r > 0, lines 126-127
MultSend(r) ==
  /\ prog = "mult" /\ r # root /\ pc[r] = "send"
  /\ SendMayComplete(r, resulttag)
  /\ chan' = [chan EXCEPT ![r] = Append(@, [src |-> r, tag |-> resulttag, kind |-> "data",
                                            data |-> Prefix(localResult[r], rows_per_proc)])]
  /\ calls' = [calls EXCEPT ![r] = Append(@, "send")]
  /\ pc' = [pc EXCEPT ![r] = "exit"]
  /\ UNCHANGED <<runConsts, myname, addLocals, recv_i, multLocals, nwrites, coll, recvd,
                 out, exitcode, cfgFailed>>

\* a receive loop that stops one rank early
MultRecv_LoopShort ==
  /\ prog = "mult" /\ pc[root] = "recv"
  /\ \E s \in RecvSources(recv_i) \cap Workers :
       /\ FirstMatch(s, resulttag) # 0
       /\ LET k == FirstMatch(s, resulttag)
              m == chan[s][k]
          IN /\ result' = StoreAt(result, m.data, recv_i, rows_per_proc)
             /\ chan' = [chan EXCEPT ![s] = RemoveAt(@, k)]
             /\ recvd' = Append(recvd, [from |-> m.src, tag |-> m.tag, kind |-> m.kind, slot |-> recv_i])
  /\ nwrites' = CountWrites(nwrites, recv_i * rows_per_proc, rows_per_proc)
  /\ calls' = [calls EXCEPT ![root] = Append(@, "recv")]
  /\ recv_i' = recv_i + 1
  /\ pc' = [pc EXCEPT ![root] = IF recv_i + 2 < np THEN "recv" ELSE "report"]
  /\ UNCHANGED <<runConsts, myname, addLocals, matA, matX, localResult, coll, out,
                 exitcode, cfgFailed>>

\* rank 0, lines 90-93: receive the results of rank recv_i into result
MultRecv ==
  /\ prog = "mult" /\ pc[root] = "recv"
  /\ \E s \in RecvSources(recv_i) \cap Workers :
       /\ FirstMatch(s, resulttag) # 0
       /\ LET k == FirstMatch(s, resulttag)
              m == chan[s][k]
          IN /\ result' = StoreAt(result, m.data, recv_i, rows_per_proc)
             /\ chan' = [chan EXCEPT ![s] = RemoveAt(@, k)]
             /\ recvd' = Append(recvd, [from |-> m.src, tag |-> m.tag, kind |-> m.kind, slot |-> recv_i])
  /\ nwrites' = CountWrites(nwrites, recv_i * rows_per_proc, rows_per_proc)
  /\ calls' = [calls EXCEPT ![root] = Append(@, "recv")]
  /\ recv_i' = recv_i + 1
  /\ pc' = [pc EXCEPT ![root] = IF recv_i + 1 < np THEN "recv" ELSE "report"]
  /\ UNCHANGED <<runConsts, myname, addLocals, matA, matX, localResult, coll, out,
                 exitcode, cfgFailed>>

\* rank 0, lines 95-99 and 130-131: print the result vector, leave
MultRootReport ==
  /\ prog = "mult" /\ pc[root] = "report"
  /\ out' = [out EXCEPT ![root] = Append(@, Line("result", root, myname[root], result))]
  /\ pc' = [pc EXCEPT ![root] = "done"]
  /\ exitcode' = [exitcode EXCEPT ![root] = 0]
  /\ UNCHANGED <<runConsts, myname, addLocals, recv_i, multLocals, nwrites, coll, chan, calls,
                 recvd, cfgFailed>>

\* rank r > 0, lines 130-131
MultWorkerExit(r) ==
  /\ prog = "mult" /\ r # root /\ pc[r] = "exit"
  /\ pc' = [pc EXCEPT ![r] = "done"]
  /\ exitcode' = [exitcode EXCEPT ![r] = 0]
  /\ UNCHANGED <<runConsts, myname, addLocals, recv_i, multLocals, nwrites, coll, chan, calls,
                 recvd, out, cfgFailed>>

Next ==
  \/ AddRootConfigure
  \/ \E r \in Workers : AddWorkerConfigure(r)
  \/ AddRootScatterA
  \/ AddRootScatterB
  \/ \E r \in Workers : AddWorkerScatterA(r)
  \/ \E r \in Workers : AddWorkerScatterB(r)
  \/ AddRootCompute
  \/ \E r \in Workers : AddWorkerCompute(r)
  \/ \E r \in Workers : AddSendName(r)
  \/ \E r \in Workers : AddSendData(r)
  \/ AddRecvName
  \/ AddRecvData
  \/ AddRootFinish
  \/ \E r \in Workers : AddWorkerExit(r)
  \/ MultRootStart
  \/ \E r \in Workers : MultWorkerStart(r)
  \/ MultRootScatter
  \/ \E r \in Workers : MultWorkerScatter(r)
  \/ \E r \in Ranks : MultOverflowCrash(r)
  \/ MultRootBcast
  \/ \E r \in Workers : MultWorkerBcast(r)
  \/ MultRootCompute
  \/ \E r \in Workers : MultWorkerCompute(r)
  \/ \E r \in Workers : MultSend(r)
  \/ MultRecv
  \/ MultRootReport
  \/ \E r \in Workers : MultWorkerExit(r)

Spec == Init /\ [][Next]_vars

\* every rank is a process of its own that the operating system keeps running:
\* a step that stays possible is eventually taken
FairSpec == Spec /\ WF_vars(Next)

(* ============================ the claims =============================== *)
\* a rank that has left the start position only through a failed check
Rejected(r) == pc[r] \in {"start", "done"} /\ (pc[r] = "done" => cfgFailed[r])

NoCommunication ==
  /\ \A r \in Ranks : calls[r] = <<>> /\ coll[r] = <<>> /\ chan[r] = <<>>
  /\ recvd = <<>>

\* C1: in the array-sum program, with a group size that does not divide 48 or
\* exceeds 8, every rank leaves through the configuration check and no rank
\* ever enters a scatter, send or receive.
C1_AddRejectsBadSize ==
  (prog = "add" /\ (np > MAXPROC \/ LENGTH % np # 0)) =>
     /\ \A r \in Ranks : Rejected(r)
     /\ NoCommunication

\* a rejected run of 5 ranks (48 % 5 # 0) in which every rank has terminated
C1_Witness ==
  /\ prog = "add" /\ np = 5
  /\ \A r \in Ranks : pc[r] = "done" /\ cfgFailed[r]

\* C2: in the matrix-vector program, with a group size that does not divide
\* 16, every rank ends in a configuration error before any collective or
\* point-to-point call.
C2_MultRejectsBadSize ==
  (prog = "mult" /\ N % np # 0) =>
     /\ \A r \in Ranks : Rejected(r)
     /\ NoCommunication

\* C3: a rank that completes a valid run exits with status 0, a rank whose
\* configuration check fails exits with a nonzero status.
C3_ExitStatus ==
  \A r \in Ranks :
     pc[r] = "done" => IF cfgFailed[r] THEN exitcode[r] # 0 ELSE exitcode[r] = 0

\* the product A*X computed over the whole matrix: entry k
WholeProduct(k) == SumTo([j \in 0 .. (N - 1) |-> (k * N + j) * (j + 1)], N)

\* C4: in the matrix-vector program with a group size that divides 16, once
\* the coordinator has finished collecting, every entry of result has been
\* written exactly once and result[k] is the dot product of row k with X.
C4_MultResultComplete ==
  (prog = "mult" /\ N % np = 0 /\ pc[root] \in {"report", "done"}) =>
     \A k \in 0 .. (N - 1) : nwrites[k] = 1 /\ result[k] = WholeProduct(k)

\* the array-sum program runs with a group size it accepts
AddValid == prog = "add" /\ np <= MAXPROC /\ LENGTH % np = 0

\* the lines of local sums the coordinator has printed: its own, then one per receive
SumLines == SelectSeq(out[root], LAMBDA l : l.kind \in {"local", "sums"})

\* C5 as stated: once the receive loop has finished the coordinator holds a
\* complete result of length 48 with the local sums of every rank, its own
\* included, none overwritten.
C5_AddHoldsFinalResult ==
  (AddValid /\ pc[root] \in {"ready", "done"}) =>
     \A k \in 0 .. (LENGTH - 1) : localSum[root][k] = k + (LENGTH + k)

\* C5 amended: once the receive loop has finished the coordinator has reported
\* the local sums of every rank exactly once, in ascending rank order beginning
\* with its own, and the reported sums taken together are the 48 values
\* A[i]+B[i]; what it holds in localSum is only the sums of the last rank.
C5_AddReportsEverySum ==
  (AddValid /\ pc[root] \in {"ready", "done"}) =>
     /\ Len(SumLines) = np
     /\ \A q \in 1 .. Len(SumLines) :
          /\ SumLines[q].rank = q - 1
          /\ DOMAIN SumLines[q].data = 0 .. (LENGTH \div np - 1)
          /\ \A k \in 0 .. (LENGTH \div np - 1) :
               SumLines[q].data[k] =
                 ((q - 1) * (LENGTH \div np) + k) + (LENGTH + (q - 1) * (LENGTH \div np) + k)
     /\ Prefix(localSum[root], LENGTH \div np) = SumLines[np].data
     /\ np > 1 => \A k \in (LENGTH \div np) .. (LENGTH - 1) : localSum[root][k] = Undef

\* a run of 4 ranks whose coordinator has left the receive loop
C5_Witness == AddValid /\ np = 4 /\ pc[root] = "ready" /\ Len(recvd) = 6

\* rank r has received its partition(s)
Distributed(r) ==
  IF prog = "add"
  THEN pc[r] \in {"compute", "sendName", "sendData", "exit", "recvName", "recvData", "ready"}
       \/ (pc[r] = "done" /\ ~cfgFailed[r])
  ELSE pc[r] \in {"bcast", "compute", "send", "exit", "recv", "report", "done"}

\* C6: for every valid group size, after distribution the partition of rank r
\* is exactly elements [r*(L/P), (r+1)*(L/P)) of the coordinator's dataset
\* (elements of A and B, rows of matA), and the partitions in rank order make
\* up the whole dataset.
C6_PartitionIsSlice ==
  /\ AddValid =>
       /\ \A r \in Ranks : Distributed(r) =>
            \A k \in 0 .. (LENGTH \div np - 1) :
               /\ localA[r][k] = A[r * (LENGTH \div np) + k]
               /\ localB[r][k] = B[r * (LENGTH \div np) + k]
       /\ (\A r \in Ranks : Distributed(r)) =>
            \A e \in 0 .. (LENGTH - 1) :
               /\ localA[e \div (LENGTH \div np)][e % (LENGTH \div np)] = A[e]
               /\ localB[e \div (LENGTH \div np)][e % (LENGTH \div np)] = B[e]
  /\ (prog = "mult" /\ N % np = 0) =>
       /\ \A r \in Ranks : Distributed(r) =>
            \A k \in 0 .. (rows_per_proc - 1) : localA[r][k] = matA[r * rows_per_proc + k]
       /\ (\A r \in Ranks : Distributed(r)) =>
            \A e \in 0 .. (N - 1) : localA[e \div rows_per_proc][e % rows_per_proc] = matA[e]

\* C7: in the array-sum program the local sum of rank r at index k is
\* A[r*(48/P)+k] + B[r*(48/P)+k] with A = 0..47 and B = 48..95, so the local
\* sums in rank order are 48, 50, ..., 142.
C7_AddLocalSums ==
  AddValid =>
    \A r \in Ranks :
      /\ pc[r] \in {"sendName", "sendData", "exit"} =>
           \A k \in 0 .. (LENGTH \div np - 1) :
              localSum[r][k] = 48 + 2 * (r * (LENGTH \div np) + k)
      /\ \A q \in 1 .. Len(out[r]) : out[r][q].kind = "local" =>
           \A k \in 0 .. (LENGTH \div np - 1) :
              out[r][q].data[k] = 48 + 2 * (r * (LENGTH \div np) + k)
      /\ (pc[r] \notin {"start", "scatterA", "scatterB", "compute"}) =>
           \E q \in 1 .. Len(out[r]) : out[r][q].kind = "local"

\* Scenario A: 4 ranks, every rank has computed and printed its 12 sums
C7_Witness ==
  /\ AddValid /\ np = 4
  /\ \A r \in Workers : pc[r] = "sendName"
  /\ pc[root] = "recvName"
  /\ localSum[3][11] = 142 /\ localSum[root][0] = 48

\* rank whose message the p-th receive of the coordinator must take
ExpectedSource(p) == IF prog = "add" THEN (p + 1) \div 2 ELSE p

\* C8: the coordinator consumes the workers' messages strictly in ascending
\* rank order 1, 2, ..., P-1, whatever the order in which they were sent, and
\* reports them in that order.
C8_CollectInRankOrder ==
  /\ \A p \in 1 .. Len(recvd) : recvd[p].from = ExpectedSource(p) /\ recvd[p].slot = recvd[p].from
  /\ prog = "add" =>
       \A q \in 2 .. Len(SumLines) : SumLines[q].kind = "sums" /\ SumLines[q].rank = q - 1

\* the coordinator has consumed rank 1 and waits for rank 2, whose message has
\* not been sent yet, while the message of rank 3 is already there
C8_Witness ==
  /\ np >= 4 /\ recv_i = 2 /\ RootPosted # {}
  /\ Len(recvd) > 0
  /\ chan[2] = <<>> /\ chan[3] # <<>>

\* C9: in the array-sum program the host label the coordinator stores and
\* reports for rank i is the one rank i sent, the sums reported next to it are
\* the ones rank i sent, and a receive on tag 42 takes only name messages, a
\* receive on tag 43 only data messages.
C9_AddIdentityPairing ==
  prog = "add" =>
    /\ \A i \in Workers : hostname[i] # Undef => hostname[i] = myname[i]
    /\ \A q \in 1 .. Len(out[root]) : out[root][q].kind = "sums" =>
         /\ out[root][q].host = myname[out[root][q].rank]
         /\ out[root][q].data = Prefix(localSum[out[root][q].rank], LENGTH \div np)
    /\ \A p \in 1 .. Len(recvd) :
         /\ recvd[p].tag = nametag => recvd[p].kind = "name"
         /\ recvd[p].tag = datatag => recvd[p].kind = "data"
         /\ recvd[p].tag \in {nametag, datatag}

\* 4 ranks on 2 hosts, the coordinator has stored and reported every worker
C9_Witness ==
  /\ prog = "add" /\ np = 4 /\ nhosts = 2
  /\ pc[root] = "done" /\ ~cfgFailed[root]
  /\ hostname[1] = 1 /\ hostname[2] = 0 /\ hostname[3] = 1

\* C10: in the matrix-vector program every worker sends an identity message
\* and a result message on two distinct tags and the coordinator receives
\* both: every result it has received comes with the identity of its sender.
C10_MultIdentityWithResult ==
  prog = "mult" =>
    \A p \in 1 .. Len(recvd) : recvd[p].kind = "data" =>
       \E q \in 1 .. Len(recvd) :
          /\ recvd[q].from = recvd[p].from
          /\ recvd[q].kind = "name"
          /\ recvd[q].tag # recvd[p].tag

\* the collective calls of the running program, in program order
CollectiveCalls == IF prog = "add" THEN <<"scatter", "scatter">> ELSE <<"scatter", "bcast">>

\* C11: every rank makes the collective calls of its program in the same
\* order, each once (scatter, scatter / scatter, bcast), and makes no send or
\* receive before it has completed them; a rank that finishes a run which
\* passed configuration has made all of them.
C11_CollectiveLockstep ==
  \A r \in Ranks :
     /\ \A p \in 1 .. Len(calls[r]) :
          IF p <= Len(CollectiveCalls)
          THEN calls[r][p] = CollectiveCalls[p]
          ELSE calls[r][p] = IF r = root THEN "recv" ELSE "send"
     /\ (pc[r] = "done" /\ ~cfgFailed[r]) => Len(calls[r]) >= Len(CollectiveCalls)
     /\ (r # root /\ chan[r] # <<>>) => Len(calls[r]) > Len(CollectiveCalls)

\* both programs: a run of 4 ranks in which every rank has finished
C11_Witness ==
  /\ np = 4
  /\ \A r \in Ranks : pc[r] = "done" /\ ~cfgFailed[r]
  /\ \A r \in Workers : Len(calls[r]) = IF prog = "add" THEN 4 ELSE 3

\* C12 as stated: on a configuration failure of the array-sum program every
\* rank, rank 0 and the others, prints a usage diagnostic before it terminates.
C12_EveryRankPrintsUsage ==
  \A r \in Ranks :
     (prog = "add" /\ cfgFailed[r]) =>
        \E q \in 1 .. Len(out[r]) : out[r][q].kind = "usage"

\* C12 amended: on a configuration failure of the array-sum program rank 0
\* prints the usage diagnostic before it terminates; every other rank
\* terminates without printing anything.
C12_OnlyRootPrintsUsage ==
  \A r \in Ranks :
     (prog = "add" /\ cfgFailed[r]) =>
        IF r = root
        THEN Len(out[r]) = 1 /\ out[r][1].kind = "usage"
        ELSE out[r] = <<>>

\* a rejected run of 5 ranks, all terminated
C12_Witness ==
  /\ prog = "add" /\ np = 5
  /\ \A r \in Ranks : cfgFailed[r]
  /\ out[root] # <<>> /\ out[4] = <<>>

\* a run with a group size that divides the dataset (and, for the array-sum
\* program, passes the configuration check)
ValidRun == AddValid \/ (prog = "mult" /\ N % np = 0)

AllDone == \A r \in Ranks : pc[r] = "done"

\* C13: for every valid group size, with fair scheduling, every rank of both
\* programs eventually reaches DONE, with buffered and with synchronous sends.
C13_EveryRankTerminates == ValidRun => <>AllDone

\* number of sends rank r has made
SendsOf(r) == Len(SelectSeq(calls[r], LAMBDA c : c = "send"))

\* number of messages a worker sends in a run: name and sums / results
SendsPerWorker == IF prog = "add" THEN 2 ELSE 1

\* rank 0 has left its receive loop
RootCollected == pc[root] \in {"ready", "report"} \/ (pc[root] = "done" /\ ~cfgFailed[root])

\* C14: as long as worker i has not sent its message(s), the coordinator does
\* not get past its receive for rank i: it consumes nothing of a rank j > i,
\* does not finish collecting, prints no final report and does not reach DONE.
C14_NoTimeout ==
  \A i \in Workers :
     SendsOf(i) < SendsPerWorker =>
        /\ recv_i <= i
        /\ ~RootCollected
        /\ \A p \in 1 .. Len(recvd) : recvd[p].from <= i
        /\ \A q \in 1 .. Len(out[root]) : out[root][q].kind \notin {"Ready", "result"}

\* rank 1 never sends (it has stopped in the scatter); the message of rank 2
\* is there, the coordinator is blocked in the receive for rank 1
C14_Witness ==
  /\ prog = "mult" /\ np = 3
  /\ pc[1] = "crashed" /\ pc[2] = "done"
  /\ pc[root] = "recv" /\ recv_i = 1
  /\ chan[1] = <<>> /\ chan[2] # <<>>

\* rank r has made the last communication call of its protocol
Finished(r) == IF r = root THEN RootCollected ELSE pc[r] \in {"exit", "done"}

\* a run that gets past configuration
Communicating == prog = "mult" \/ AddValid

Computed(r) ==
  IF prog = "add"
  THEN pc[r] \in {"sendName", "sendData", "exit", "recvName", "recvData", "ready"}
       \/ (pc[r] = "done" /\ ~cfgFailed[r])
  ELSE pc[r] \in {"send", "exit", "recv", "report", "done"}

\* C16: on every rank, coordinator or worker, the local result is the same
\* function of the rank's partition (and its copy of X): the elementwise sum
\* of the two portions, the dot product of each local row with X. The rank
\* only selects the slice.
C16_RankIndependentCompute ==
  \A r \in Ranks : Computed(r) =>
     IF prog = "add"
     THEN \A q \in 1 .. Len(out[r]) : out[r][q].kind = "local" =>
            \A k \in 0 .. (LENGTH \div np - 1) :
               out[r][q].data[k] = localA[r][k] + localB[r][k]
     ELSE \A k \in 0 .. (rows_per_proc - 1) :
            localResult[r][k] =
               SumTo([j \in 0 .. (N - 1) |-> localA[r][k][j] * matX[r][j]], N)

\* the written entries of a buffer
Written(buf) == {k \in DOMAIN buf : buf[k] # Undef}

C18_MultBufferBounds ==
  (prog = "mult" /\ \E r \in Ranks : pc[r] # "start") => rows_per_proc <= LocalRows

\* C19: in the array-sum program, whenever the coordinator receives for rank
\* i then 1 <= i < P <= MAXPROC, so hostname[i] exists, and every rank that
\* gets past the configuration check uses a count 48/P with
\* 1 <= 48/P <= LENGTH and P * (48/P) = LENGTH.
C19_AddBufferBounds ==
  prog = "add" =>
    /\ pc[root] \in {"recvName", "recvData"} => (1 <= recv_i /\ recv_i < np /\ np <= MAXPROC)
    /\ \A i \in Ranks : hostname[i] # Undef => (1 <= i /\ i < MAXPROC)
    /\ \A r \in Ranks : (pc[r] # "start" /\ ~cfgFailed[r]) =>
         /\ np <= MAXPROC
         /\ 1 <= LENGTH \div np /\ LENGTH \div np <= LENGTH
         /\ np * (LENGTH \div np) = LENGTH

\* 4 ranks, the coordinator is about to receive the name of the last rank
C19_Witness ==
  /\ prog = "add" /\ np = 4
  /\ pc[root] = "recvName" /\ recv_i = 3
  /\ hostname[2] # Undef

\* number of entries of a sequence of messages with the given tag
TagCount(q, tag) == Len(SelectSeq(q, LAMBDA m : m.tag = tag))

\* the messages rank 0 has received from rank i
RecvdFrom(i) == SelectSeq(recvd, LAMBDA m : m.from = i)

\* C20: every message a worker has sent is either still in the transport or
\* has been received by the coordinator exactly once, on its tag; when every
\* rank of a valid run is DONE the transport is empty and the coordinator has
\* received from each worker, on each tag, as many messages as it sent.
C20_MessageConservation ==
  \A i \in Workers :
     /\ SendsOf(i) = Len(RecvdFrom(i)) + Len(chan[i])
     /\ \A tag \in {nametag, datatag, resulttag} :
          TagCount(RecvdFrom(i), tag) + TagCount(chan[i], tag) <= 1
     /\ (ValidRun /\ AllDone) =>
          /\ chan[i] = <<>>
          /\ Len(RecvdFrom(i)) = SendsPerWorker
          /\ \A tag \in (IF prog = "add" THEN {nametag, datatag} ELSE {resulttag}) :
               TagCount(RecvdFrom(i), tag) = 1

\* a valid run of 4 ranks, all DONE
C20_Witness ==
  /\ ValidRun /\ np = 4 /\ AllDone
  /\ Len(recvd) = 3 * SendsPerWorker

====
